---- MODULE Spec2Model ----
(***************************************************************************)
(* State-machine model of src/src/main.cpp: the animation loop of main(),  *)
(* the startup shader check, the GSL driver call, and the four GLFW input  *)
(* callbacks that glfwPollEvents() invokes.                                *)
(***************************************************************************)
EXTENDS Integers, Sequences, FiniteSets, TLC

\* ---------------------------------------------------------------- bounds
\* Number of loop iterations explored (the C++ loop itself is unbounded).
MaxIter == 2
\* Number of iterations followed when only the simulation is observed.
Horizon == 50
\* Fixed-point resolution of the doubles y[0], y[1].
Scale == 1000
\* Steps the driver takes per unit of time (its step subdivision is
\* invisible to the caller).
SubSteps == 10

\* ------------------------------------------------------ program constants
GLFW_RELEASE == 0
GLFW_PRESS == 1
GLFW_REPEAT == 2
GLFW_KEY_F == 70
GLFW_KEY_V == 86
GLFW_KEY_LEFT_SHIFT == 340
GLFW_KEY_UNKNOWN == 0 - 1
GLFW_MOUSE_BUTTON_LEFT == 0
\* a button code outside the buttons the input state tracks
GLFW_MOUSE_BUTTON_LAST == 7
GSL_SUCCESS == 0
GSL_FAILURE == 0 - 1
\* value of exit_code while main() has not returned and exit() was not called
NotExited == 0 - 1

\* struct parameters, lines 63-66, in tenths (c = 0.2, k = 2, M = 20, F = 5)
parameters == [c |-> 2, k |-> 20, M |-> 200, F |-> 50]

\* ------------------------------------------------------------ input sets
Keys == {GLFW_KEY_F, GLFW_KEY_V, GLFW_KEY_LEFT_SHIFT, GLFW_KEY_UNKNOWN}
KeyActions == {GLFW_RELEASE, GLFW_PRESS, GLFW_REPEAT}
Buttons == {GLFW_MOUSE_BUTTON_LEFT, GLFW_MOUSE_BUTTON_LAST}
ButtonActions == {GLFW_RELEASE, GLFW_PRESS}
\* window sizes (width, height) a resize event may report
Sizes == {<<4, 2>>, <<2, 2>>}
InitialSize == <<4, 2>>
\* cursor positions in pixels
Pixels == {<<0, 0>>, <<2, 1>>}
\* abstract camera transforms of scene.camera_control.camera_model
Cameras == {0, 1}
\* values returned by fps_record.update()
TimeIntervals == {1, 2}

VARIABLES
    pc,             \* position of main()
    shader_found,   \* check_file_exist("../shaders/mesh/vert.glsl")
    should_close,   \* glfwWindowShouldClose(scene.window.glfw_window)
    ti,             \* int ti
    t,              \* double t (whole time units)
    y,              \* double y[2], fixed point
    status,         \* value returned by the last gsl_odeiv2_driver_apply
    failed,         \* some gsl_odeiv2_driver_apply returned an error
    translation,    \* scene.p2.model.translation.z, fixed point
    line,           \* end point z of scene.line
    width,          \* scene.window.width
    height,         \* scene.window.height
    is_full_screen, \* scene.window.is_full_screen
    viewport,       \* last glViewport(0, 0, w, h)
    time_interval,  \* scene.inputs.time_interval
    on_gui,         \* scene.inputs.mouse.on_gui
    aspect_ratio,   \* scene.camera_projection.aspect_ratio, fixed point
    shift,          \* scene.inputs.keyboard.shift
    left,           \* scene.inputs.mouse.click.left
    position,       \* scene.inputs.mouse.position.current
    camera,         \* scene.camera_control.camera_model
    last,           \* the event handled by the last callback of this poll
    prev,           \* the shift+F key-down handled just before `last`
    released,       \* resources released so far, in order
    exit_code,      \* process exit code
    steps,          \* loop steps executed in the current iteration
    ode             \* arguments and results of eqdiff / jacobian calls

vars == <<pc, shader_found, should_close, ti, t, y, status, failed,
          translation, line, width, height, is_full_screen, viewport,
          time_interval, on_gui, shift, left, position, camera, last, prev,
          released, exit_code, aspect_ratio, steps, ode>>

simVars == <<ti, t, y, status, failed, translation, line>>
windowVars == <<width, height, is_full_screen>>
inputVars == <<shift, left, position>>
frameVars == <<viewport, aspect_ratio, time_interval, on_gui>>
ghostVars == <<last, prev>>

NoEvent == [kind |-> "none", code |-> 0, action |-> 0, fs0 |-> FALSE,
            calls |-> <<>>, seen |-> <<>>, out |-> <<>>]
NoPrev == [valid |-> FALSE, fs0 |-> FALSE]
\* no eqdiff / jacobian call under observation
NoOde == [stage |-> "none"]

\* -------------------------------------------------------------- ODE model
\* eqdiff: f[0] = y[1]; f[1] = (F - c*y[1] - k*y[0]) / M, on fixed-point y
\* with the forcing scaled like y.  The result is exact: it holds the
\* numerators of f[0] and f[1] over the denominator M.
eqdiff(yy, p) ==
    <<p.M * yy[2], p.F * Scale - p.c * yy[2] - p.k * yy[1]>>

\* jacobian with the entries of lines 244 and 245 exchanged.
jacobian_swapped(p) ==
    [dfdy |-> << <<0, p.M>>, <<0 - p.c, 0 - p.k>> >>, den |-> p.M,
     dfdt |-> <<0, 0>>]

\* jacobian: dfdy = [[0, 1], [-k/M, -c/M]] as numerators over M, dfdt = 0.
jacobian(p) ==
    [dfdy |-> << <<0, p.M>>, <<0 - p.k, 0 - p.c>> >>, den |-> p.M,
     dfdt |-> <<0, 0>>]

\* a / b rounded to the nearest integer, b > 0
RoundDiv(a, b) == (a + b \div 2) \div b

\* One internal step of the driver, of size h = 1/SubSteps.  The driver of
\* line 68 (rk1imp steps under error control, tolerances 1e-6) is library
\* code; what main relies on is its contract, that y at the target is the
\* solution of y' = eqdiff(y) from the y passed in, within the tolerance.
\* The step taken here is the implicit midpoint rule,
\*     (I - (h/2) J) (y' - y) = h f(y),
\* with f from eqdiff and J from jacobian, solved by Cramer's rule with
\* numerators and determinant scaled by (2 * SubSteps * M)^2.  It is second
\* order and adds no damping of its own, so that y stays within a few
\* units of 1/Scale of the solution over Horizon units of time.
driver_step(yy, p) ==
    LET f == eqdiff(yy, p)
        J == jacobian(p).dfdy
        A == 2 * SubSteps * p.M
        D == (A - J[1][1]) * (A - J[2][2]) - J[1][2] * J[2][1]
    IN  <<yy[1] + RoundDiv((A - J[2][2]) * 2 * f[1] + J[1][2] * 2 * f[2], D),
          yy[2] + RoundDiv(J[2][1] * 2 * f[1] + (A - J[1][1]) * 2 * f[2], D)>>

\* n internal steps of the driver
RECURSIVE evolve(_, _, _)
evolve(yy, n, p) ==
    IF n <= 0 THEN yy ELSE evolve(driver_step(yy, p), n - 1, p)

\* gsl_odeiv2_driver_apply(d, &t, t1, y): on success t = t1 and y is the
\* state integrated to t1; on failure the driver stops at some earlier time
\* `stop` with the state reached there and returns an error code.
gsl_odeiv2_driver_apply(tt, t1, yy, st, stop) ==
    IF st = GSL_SUCCESS
    THEN [t |-> IF tt < t1 THEN t1 ELSE tt,
          y |-> evolve(yy, (t1 - tt) * SubSteps, parameters),
          status |-> GSL_SUCCESS]
    ELSE [t |-> stop, y |-> evolve(yy, (stop - tt) * SubSteps, parameters),
          status |-> st]

\* ---------------------------------------------------------------- startup
\* Line 71: double y[2] = { 0.5, 0.0 }.
y0 == <<Scale \div 2, 0>>

Init ==
    /\ pc = "shaders"
    /\ shader_found \in BOOLEAN
    /\ should_close = FALSE
    /\ ti = 0
    /\ t = 0
    /\ y = y0
    /\ status = GSL_SUCCESS
    /\ failed = FALSE
    /\ translation = [nan |-> FALSE, z |-> 0]
    /\ line = [nan |-> FALSE, z |-> 0]
    /\ width = InitialSize[1]
    /\ height = InitialSize[2]
    /\ is_full_screen = FALSE
    /\ viewport = <<0, 0>>
    /\ time_interval = 0
    /\ on_gui = FALSE
    /\ shift = FALSE
    /\ left = FALSE
    /\ position = <<0, 0>>
    /\ camera = 0
    /\ last = NoEvent
    /\ prev = NoPrev
    /\ released = <<>>
    /\ exit_code = NotExited
    /\ aspect_ratio = 0
    /\ steps = <<>>
    /\ ode = NoOde

\* initialize_default_shaders(): exit(1) when the vertex shader is missing;
\* otherwise main goes on to lines 56-79 (scene, solver, ti = 1).
initialize_default_shaders ==
    /\ pc = "shaders"
    /\ IF shader_found
       THEN /\ pc' = "head"
            /\ ti' = 1
            /\ exit_code' = exit_code
       ELSE /\ pc' = "exited"
            /\ ti' = ti
            /\ exit_code' = 1
    /\ UNCHANGED <<steps, ode, shader_found, should_close, t, y, status, failed,
                   translation, line, windowVars, frameVars,
                   inputVars, camera, ghostVars, released>>

\* ---------------------------------------------------------- animation loop
\* while (!glfwWindowShouldClose(...)), line 80.
LoopHeadUpTo(n) ==
    /\ pc = "head"
    /\ IF should_close
       THEN pc' = "imgui_cleanup"
       ELSE /\ ti <= n
            /\ pc' = "frame"
    /\ steps' = (IF should_close THEN steps ELSE <<>>)
    /\ UNCHANGED <<ode, shader_found, should_close, simVars, windowVars,
                   frameVars,
                   inputVars, camera, ghostVars, released,
                   exit_code>>

LoopHead == LoopHeadUpTo(MaxIter)

\* Lines 82-102: projection and viewport from the window size, clear,
\* fps_record.update(), GUI frame begin, ImGui's mouse capture and the time
\* interval stored in the inputs.
FrameSetup ==
    /\ pc = "frame"
    /\ aspect_ratio' = (width * Scale) \div height
    /\ viewport' = <<width, height>>
    /\ time_interval' \in TimeIntervals
    /\ on_gui' \in BOOLEAN
    /\ pc' = "advance"
    /\ steps' = Append(steps, "timer")
    /\ UNCHANGED <<ode, shader_found, should_close, simVars, windowVars,
                   inputVars, camera, ghostVars, released, exit_code>>

\* Line 105 with the target taken from the frame timer: t + time_interval.
Advance_dt ==
    /\ pc = "advance"
    /\ \E st \in {GSL_SUCCESS, GSL_FAILURE} :
         \E stop \in (IF st = GSL_SUCCESS THEN {t + time_interval}
                      ELSE t .. (t + time_interval - 1)) :
           LET r == gsl_odeiv2_driver_apply(t, t + time_interval, y, st, stop)
           IN  /\ t' = r.t
               /\ y' = r.y
               /\ status' = r.status
               /\ failed' = (failed \/ r.status # GSL_SUCCESS)
    /\ pc' = "transform"
    /\ steps' = Append(steps, "advance")
    /\ UNCHANGED <<ode, shader_found, should_close, ti, translation, line,
                   windowVars, frameVars, inputVars, camera,
                   ghostVars, released, exit_code>>

\* Line 105: gsl_odeiv2_driver_apply(d, &t, (double)ti, y); the returned
\* status is not read by main, which goes on to line 106 in every case.
Advance ==
    /\ pc = "advance"
    /\ \E st \in {GSL_SUCCESS, GSL_FAILURE} :
         \E stop \in (IF st = GSL_SUCCESS THEN {ti} ELSE t .. (ti - 1)) :
           LET r == gsl_odeiv2_driver_apply(t, ti, y, st, stop)
           IN  /\ t' = r.t
               /\ y' = r.y
               /\ status' = r.status
               /\ failed' = (failed \/ r.status # GSL_SUCCESS)
    /\ pc' = "transform"
    /\ steps' = Append(steps, "advance")
    /\ UNCHANGED <<ode, shader_found, should_close, ti, translation, line,
                   windowVars, frameVars, inputVars, camera,
                   ghostVars, released, exit_code>>

\* Lines 106-107 with the anchor at the origin instead of (0,0,3).
p2dir_origin(yy) ==
    LET dz == yy[1]
    IN  [nan |-> (dz = 0),
         z |-> IF dz > 0 THEN 1 ELSE IF dz < 0 THEN 0 - 1 ELSE 0]

\* Lines 106-107: p2dir = vec3(0,0,y[0]) - vec3(0,0,3); p2dir /= norm(p2dir).
\* Only the z component is non-zero; a zero norm gives NaN.
p2dir(yy) ==
    LET dz == yy[1] - 3 * Scale
    IN  [nan |-> (dz = 0), z |-> IF dz > 0 THEN 1 ELSE IF dz < 0 THEN 0 - 1 ELSE 0]

\* Line 109: scene.p2.model.translation += vec3(p2dir * y[1]).
Transform ==
    /\ pc = "transform"
    /\ LET d == p2dir(y)
       IN  translation' =
             IF translation.nan \/ d.nan
             THEN [nan |-> TRUE, z |-> 0]
             ELSE [nan |-> FALSE, z |-> translation.z + d.z * y[2]]
    /\ pc' = "line"
    /\ steps' = Append(steps, "transform")
    /\ UNCHANGED <<ode, shader_found, should_close, ti, t, y, status, failed,
                   line,
                   windowVars, frameVars, inputVars, camera,
                   ghostVars, released, exit_code>>

\* Line 110: scene.line rebuilt from (0,0,2) to the translation.
LineUpdate ==
    /\ pc = "line"
    /\ line' = translation
    /\ pc' = "display"
    /\ steps' = Append(steps, "line")
    /\ UNCHANGED <<ode, shader_found, should_close, ti, t, y, status, failed,
                   translation, windowVars, frameVars,
                   inputVars, camera, ghostVars, released, exit_code>>

\* Lines 114-120: display_gui, idle_frame (camera behaviour), display_frame.
Display ==
    /\ pc = "display"
    /\ camera' \in Cameras
    /\ pc' = "swap"
    /\ steps' = Append(steps, "draw")
    /\ UNCHANGED <<ode, shader_found, should_close, simVars, windowVars,
                   frameVars,
                   inputVars, ghostVars, released, exit_code>>

\* Lines 123-125 with line 126 (glfwPollEvents) left out.
SwapBuffers_nopoll ==
    /\ pc = "swap"
    /\ pc' = "incr"
    /\ steps' = Append(steps, "swap")
    /\ UNCHANGED <<ode, shader_found, should_close, simVars, windowVars,
                   frameVars,
                   inputVars, camera, ghostVars, released,
                   exit_code>>

\* Lines 123-125: ImGui::End, imgui_render_frame, glfwSwapBuffers.
SwapBuffers ==
    /\ pc = "swap"
    /\ pc' = "poll"
    /\ steps' = Append(steps, "swap")
    /\ UNCHANGED <<ode, shader_found, should_close, simVars, windowVars,
                   frameVars,
                   inputVars, camera, ghostVars, released,
                   exit_code>>

\* Line 126 followed by a test of the close flag that leaves the loop.
PollReturn_break ==
    /\ pc = "poll"
    /\ pc' = IF should_close THEN "imgui_cleanup" ELSE "incr"
    /\ last' = NoEvent
    /\ prev' = NoPrev
    /\ steps' = Append(steps, "poll")
    /\ UNCHANGED <<ode, shader_found, should_close, simVars, windowVars,
                   frameVars,
                   inputVars, camera, released, exit_code>>

\* glfwPollEvents() returns, line 126.
PollReturn ==
    /\ pc = "poll"
    /\ pc' = "incr"
    /\ last' = NoEvent
    /\ prev' = NoPrev
    /\ steps' = Append(steps, "poll")
    /\ UNCHANGED <<ode, shader_found, should_close, simVars, windowVars,
                   frameVars,
                   inputVars, camera, released, exit_code>>

\* Line 128 written as ti--.
Increment_dec ==
    /\ pc = "incr"
    /\ ti' = ti - 1
    /\ pc' = "head"
    /\ steps' = Append(steps, "incr")
    /\ UNCHANGED <<ode, shader_found, should_close, t, y, status, failed,
                   translation, line, windowVars, frameVars,
                   inputVars, camera, ghostVars, released, exit_code>>

\* Line 128 written as ti += 2.
Increment_twice ==
    /\ pc = "incr"
    /\ ti' = ti + 2
    /\ pc' = "head"
    /\ steps' = Append(steps, "incr")
    /\ UNCHANGED <<ode, shader_found, should_close, t, y, status, failed,
                   translation, line, windowVars, frameVars,
                   inputVars, camera, ghostVars, released, exit_code>>

\* Line 128: ti++.
Increment ==
    /\ pc = "incr"
    /\ ti' = ti + 1
    /\ pc' = "head"
    /\ steps' = Append(steps, "incr")
    /\ UNCHANGED <<ode, shader_found, should_close, t, y, status, failed,
                   translation, line, windowVars, frameVars,
                   inputVars, camera, ghostVars, released, exit_code>>

\* ----------------------------------------------------------------- cleanup
Release(at, what, next) ==
    /\ pc = at
    /\ released' = Append(released, what)
    /\ pc' = next
    /\ UNCHANGED <<steps, ode, shader_found, should_close, simVars,
                   windowVars, frameVars,
                   inputVars, camera, ghostVars, exit_code>>

\* Line 133.
imgui_cleanup == Release("imgui_cleanup", "imgui", "destroy_window")
\* Line 134.
glfwDestroyWindow == Release("destroy_window", "window", "terminate")
\* Line 135 written as a second glfwDestroyWindow(window).
glfwTerminate_window == Release("terminate", "window", "driver_free")
\* Line 135.
glfwTerminate == Release("terminate", "glfw", "driver_free")
\* Line 136.
gsl_odeiv2_driver_free == Release("driver_free", "driver", "return")

\* Line 138: return 0.
Return ==
    /\ pc = "return"
    /\ exit_code' = 0
    /\ pc' = "done"
    /\ UNCHANGED <<steps, ode, shader_found, should_close, simVars,
                   windowVars, frameVars,
                   inputVars, camera, ghostVars, released>>

\* ---------------------------------------------------------- input callbacks
\* input_keyboard::update_from_glfw_key: the shift key sets or clears the
\* binary shift state; every other key code leaves it alone.
update_from_glfw_key(sh, key, action) ==
    IF key = GLFW_KEY_LEFT_SHIFT
    THEN IF action = GLFW_PRESS THEN TRUE
         ELSE IF action = GLFW_RELEASE THEN FALSE ELSE sh
    ELSE sh

\* input_mouse_click::update_from_glfw_click: the left button sets or clears
\* the binary click state; an unknown button code leaves it alone.
update_from_glfw_click(lf, button, action) ==
    IF button = GLFW_MOUSE_BUTTON_LEFT
    THEN IF action = GLFW_PRESS THEN TRUE
         ELSE IF action = GLFW_RELEASE THEN FALSE ELSE lf
    ELSE lf

\* window_structure::convert_pixel_to_relative_coordinates: pixel (x, y) to
\* [-1, 1]^2 fixed point, y pointing up.
convert_pixel_to_relative_coordinates(p, w, h) ==
    <<(2 * p[1] * Scale) \div w - Scale, Scale - (2 * p[2] * Scale) \div h>>

\* What a scene-level handler can read when it is invoked.
Snapshot(sh, lf, pos, fs) ==
    [shift |-> sh, left |-> lf, position |-> pos, is_full_screen |-> fs]

\* scene.mouse_move_event / mouse_click_event / keyboard_event: a
\* notification; the record of the call and of the state it was given.
scene_handler(name, snapshot) == [calls |-> <<name>>, seen |-> snapshot]

\* The shift+F key-down that `e` was, if it was one.
AsPrev(e) ==
    IF e.kind = "key" /\ e.code = GLFW_KEY_F /\ e.action = GLFW_PRESS
       /\ e.seen.shift
    THEN [valid |-> TRUE, fs0 |-> e.fs0]
    ELSE NoPrev

\* Lines 254-258 with the glViewport call of line 84 moved into the
\* callback.
window_size_callback_now(w, h) ==
    /\ width' = w
    /\ height' = h
    /\ viewport' = <<w, h>>
    /\ aspect_ratio' = (w * Scale) \div h
    /\ last' = [kind |-> "resize", code |-> 0, action |-> 0,
                fs0 |-> is_full_screen, calls |-> <<>>, seen |-> <<>>,
                out |-> <<>>]
    /\ prev' = AsPrev(last)
    /\ UNCHANGED <<steps, ode, pc, shader_found, should_close, simVars,
                   is_full_screen, time_interval, on_gui,
                   inputVars, camera, released,
                   exit_code>>

\* Lines 254-258.
window_size_callback(w, h) ==
    /\ width' = w
    /\ height' = h
    /\ last' = [kind |-> "resize", code |-> 0, action |-> 0,
                fs0 |-> is_full_screen, calls |-> <<>>, seen |-> <<>>,
                out |-> <<>>]
    /\ prev' = AsPrev(last)
    /\ UNCHANGED <<steps, ode, pc, shader_found, should_close, simVars,
                   is_full_screen,
                   frameVars, inputVars, camera, released,
                   exit_code>>

\* Lines 261-266.
mouse_move_callback(xpos, ypos) ==
    LET pos_relative ==
            convert_pixel_to_relative_coordinates(<<xpos, ypos>>, width, height)
        h == scene_handler("mouse_move_event",
                           Snapshot(shift, left, pos_relative, is_full_screen))
    IN  /\ position' = pos_relative
        /\ last' = [kind |-> "move", code |-> 0, action |-> 0,
                    fs0 |-> is_full_screen, calls |-> h.calls,
                    seen |-> h.seen, out |-> <<>>]
        /\ prev' = AsPrev(last)
        /\ UNCHANGED <<steps, ode, pc, shader_found, should_close, simVars,
                       windowVars,
                       frameVars, shift, left, camera, released,
                       exit_code>>

\* Lines 269-274 without the call of line 272.
mouse_click_callback_silent(button, action) ==
    LET lf == update_from_glfw_click(left, button, action)
    IN  /\ left' = lf
        /\ last' = [kind |-> "click", code |-> button, action |-> action,
                    fs0 |-> is_full_screen, calls |-> <<>>,
                    seen |-> <<>>, out |-> <<>>]
        /\ prev' = AsPrev(last)
        /\ UNCHANGED <<steps, ode, pc, shader_found, should_close, simVars,
                       windowVars,
                       frameVars, shift, position, camera,
                       released, exit_code>>

\* Lines 269-274.
mouse_click_callback(button, action) ==
    LET lf == update_from_glfw_click(left, button, action)
        h == scene_handler("mouse_click_event",
                           Snapshot(shift, lf, position, is_full_screen))
    IN  /\ left' = lf
        /\ last' = [kind |-> "click", code |-> button, action |-> action,
                    fs0 |-> is_full_screen, calls |-> h.calls,
                    seen |-> h.seen, out |-> <<>>]
        /\ prev' = AsPrev(last)
        /\ UNCHANGED <<steps, ode, pc, shader_found, should_close, simVars,
                       windowVars,
                       frameVars, shift, position, camera,
                       released, exit_code>>

\* Line 283 with a key repeat counted as a press.
full_screen_pressed_repeat(key, action, sh) ==
    key = GLFW_KEY_F /\ action # GLFW_RELEASE /\ sh

\* Line 283 with the shift test dropped.
full_screen_pressed_noshift(key, action, sh) ==
    key = GLFW_KEY_F /\ action = GLFW_PRESS

\* Line 283 testing the key of line 291 as well.
full_screen_pressed_v(key, action, sh) ==
    key \in {GLFW_KEY_F, GLFW_KEY_V} /\ action = GLFW_PRESS /\ sh

\* Line 283: key == GLFW_KEY_F && action == GLFW_PRESS && keyboard.shift.
full_screen_pressed(key, action, sh) ==
    key = GLFW_KEY_F /\ action = GLFW_PRESS /\ sh

\* Line 291: key == GLFW_KEY_V && action == GLFW_PRESS && keyboard.shift.
debug_pressed(key, action, sh) ==
    key = GLFW_KEY_V /\ action = GLFW_PRESS /\ sh

\* Lines 277-303 with scene.keyboard_event() called before the keyboard
\* state is updated.
keyboard_callback_stale(key, action) ==
    LET sh == update_from_glfw_key(shift, key, action)
        h == scene_handler("keyboard_event",
                           Snapshot(shift, left, position, is_full_screen))
    IN  /\ shift' = sh
        /\ is_full_screen' = IF full_screen_pressed(key, action, sh)
                             THEN ~is_full_screen ELSE is_full_screen
        /\ last' = [kind |-> "key", code |-> key, action |-> action,
                    fs0 |-> is_full_screen, calls |-> h.calls,
                    seen |-> h.seen,
                    out |-> IF debug_pressed(key, action, sh)
                            THEN <<camera>> ELSE <<>>]
        /\ prev' = AsPrev(last)
        /\ UNCHANGED <<steps, ode, pc, shader_found, should_close, simVars,
                       width, height,
                       frameVars, left, position, camera,
                       released, exit_code>>

\* Lines 277-303: update the keyboard state (279), call
\* scene.keyboard_event() (280), then shift+F toggles is_full_screen
\* (283-289) and shift+V prints a copy of the camera model (291-299).
\* set_full_screen() / set_windowed_screen() (285-288) act on the window
\* system only; a resize they raise arrives as a window_size_callback.
keyboard_callback(key, action) ==
    LET sh == update_from_glfw_key(shift, key, action)
        h == scene_handler("keyboard_event",
                           Snapshot(sh, left, position, is_full_screen))
    IN  /\ shift' = sh
        /\ is_full_screen' = IF full_screen_pressed(key, action, sh)
                             THEN ~is_full_screen ELSE is_full_screen
        /\ last' = [kind |-> "key", code |-> key, action |-> action,
                    fs0 |-> is_full_screen, calls |-> h.calls,
                    seen |-> h.seen,
                    out |-> IF debug_pressed(key, action, sh)
                            THEN <<camera>> ELSE <<>>]
        /\ prev' = AsPrev(last)
        /\ UNCHANGED <<steps, ode, pc, shader_found, should_close, simVars,
                       width, height,
                       frameVars, left, position, camera,
                       released, exit_code>>

\* The window's close request, which sets the should-close flag read at
\* line 80.
window_close_request ==
    /\ should_close' = TRUE
    /\ last' = [kind |-> "close", code |-> 0, action |-> 0,
                fs0 |-> is_full_screen, calls |-> <<>>, seen |-> <<>>,
                out |-> <<>>]
    /\ prev' = AsPrev(last)
    /\ UNCHANGED <<steps, ode, pc, shader_found, simVars, windowVars, frameVars,
                   inputVars, camera, released, exit_code>>

\* Callbacks also delivered while the buffers are swapped (line 125).
Dispatching_swap == pc \in {"swap", "poll"}

\* Line 126: glfwPollEvents() is where the registered callbacks run.
Dispatching == pc = "poll"

PollResize == Dispatching /\ \E s \in Sizes : window_size_callback(s[1], s[2])
PollMove == Dispatching /\ \E p \in Pixels : mouse_move_callback(p[1], p[2])
PollClick ==
    Dispatching /\ \E b \in Buttons, a \in ButtonActions : mouse_click_callback(b, a)
PollKey ==
    Dispatching /\ \E k \in Keys, a \in KeyActions : keyboard_callback(k, a)
PollClose == Dispatching /\ window_close_request

\* ----------------------------------------------------------- specification
Next ==
    \/ initialize_default_shaders
    \/ LoopHead
    \/ FrameSetup
    \/ Advance
    \/ Transform
    \/ LineUpdate
    \/ Display
    \/ SwapBuffers
    \/ PollResize
    \/ PollMove
    \/ PollClick
    \/ PollKey
    \/ PollClose
    \/ PollReturn
    \/ Increment
    \/ imgui_cleanup
    \/ glfwDestroyWindow
    \/ glfwTerminate
    \/ gsl_odeiv2_driver_free
    \/ Return

Spec == Init /\ [][Next]_vars

\* ------------------------------------------------- simulation alone
\* The loop with a present shader, a driver whose calls succeed and a poll
\* that delivers no event, followed for Horizon iterations.
SimInit == Init /\ shader_found

SimLoopHead == LoopHeadUpTo(Horizon)

AdvanceOk == Advance /\ status' = GSL_SUCCESS

SimNext ==
    \/ initialize_default_shaders
    \/ SimLoopHead
    \/ FrameSetup
    \/ AdvanceOk
    \/ Transform
    \/ LineUpdate
    \/ Display
    \/ SwapBuffers
    \/ PollReturn
    \/ Increment

SpecSim == SimInit /\ [][SimNext]_vars

\* ------------------------------------------------ eqdiff and jacobian
\* eqdiff and jacobian called on drawn parameters (M > 0) and states, as
\* the driver calls them through the gsl_odeiv2_system of line 67.
OdeParams ==
    [c : {0, 2, 3}, k : {0, 7, 20}, M : {1, 200}, F : {0, 50}]

OdeStates ==
    {<<a * Scale, b * Scale>> : a \in {0 - 1, 0, 3}, b \in {0 - 2, 0, 1}}

\* Everything but the record of the call under observation.
mainVars == <<pc, shader_found, should_close, simVars, windowVars,
              frameVars, inputVars, camera, ghostVars, released, exit_code,
              steps>>

OdeInit == Init /\ shader_found

OdeDraw ==
    /\ ode = NoOde
    /\ \E p \in OdeParams, yy \in OdeStates :
         ode' = [stage |-> "input", p |-> p, y |-> yy]
    /\ UNCHANGED mainVars

\* eqdiff at y and at y moved by one unit along each axis.
EvalEqdiff ==
    /\ ode.stage = "input"
    /\ ode' = [stage |-> "f", p |-> ode.p, y |-> ode.y,
               f |-> eqdiff(ode.y, ode.p),
               fe |-> <<eqdiff(<<ode.y[1] + Scale, ode.y[2]>>, ode.p),
                        eqdiff(<<ode.y[1], ode.y[2] + Scale>>, ode.p)>>]
    /\ UNCHANGED mainVars

EvalJacobian ==
    /\ ode.stage = "f"
    /\ ode' = [stage |-> "done", p |-> ode.p, y |-> ode.y, f |-> ode.f,
               fe |-> ode.fe, J |-> jacobian(ode.p)]
    /\ UNCHANGED mainVars

OdeNext == OdeDraw \/ EvalEqdiff \/ EvalJacobian

SpecODE == OdeInit /\ [][OdeNext]_vars

\* ================================================================== claims
BodyPcs == {"frame", "advance", "transform", "line", "display", "swap",
            "poll", "incr"}
ShutdownPcs == {"imgui_cleanup", "destroy_window", "terminate",
                "driver_free", "return", "done"}
UnknownCodes == {GLFW_KEY_UNKNOWN, GLFW_MOUSE_BUTTON_LAST}

IsKey(e, key, action) == e.kind = "key" /\ e.code = key /\ e.action = action
\* `e` is a key event of F delivered while shift is held
IsShiftF(e, action) == IsKey(e, GLFW_KEY_F, action) /\ e.seen.shift

\* C1: once an advance call has reported a failure, no loop step runs any
\* more (main is at the point where the call returned, or in the shutdown
\* sequence), and a run that ends after a failure ends with a non-zero code.
C1_FailureEndsLoop ==
    failed => /\ pc \in {"transform"} \cup ShutdownPcs
              /\ (pc = "done" => exit_code # 0)

\* C2: when the process has ended, its exit code is 0 exactly when the run
\* ended by the should-close condition with no failed advance; it is
\* non-zero when the shader file was missing and when an advance failed.
C2_ExitCode ==
    pc \in {"done", "exited"} =>
        /\ (exit_code = 0 <=> (shader_found /\ should_close /\ ~failed))
        /\ (~shader_found => exit_code # 0)
        /\ (failed => exit_code # 0)

\* C3: the should-close flag is read only at the loop head: a step taken
\* inside the loop body leads to the next body step or, from the increment,
\* back to the head, whatever the flag is; the head leaves the loop when the
\* flag is set and starts an iteration otherwise; the flag, once set, stays.
C3_CloseCheckedAtHead ==
    [][/\ (pc \in BodyPcs => pc' \in BodyPcs \cup {"head"})
       /\ (pc \in BodyPcs /\ pc' = "head" => pc = "incr" /\ ti' = ti + 1)
       /\ (pc = "head" /\ should_close => pc' = "imgui_cleanup")
       /\ (pc = "head" /\ ~should_close => pc' = "frame")
       /\ (pc' = "imgui_cleanup" => pc = "head" /\ should_close)
       /\ (should_close => should_close')]_vars

C3_Witness == should_close /\ pc = "incr" /\ ti = 2

\* C4: the state the callbacks write (window size, full-screen flag,
\* keyboard, click and cursor state, the record of the handled event)
\* changes only in steps that start and end inside the event poll, so from
\* the start of an iteration to its poll it is what the previous poll left.
C4_CallbacksOnlyInPoll ==
    [][\/ UNCHANGED <<width, height, is_full_screen, shift, left, position,
                      last, prev>>
       \/ pc = "poll"]_vars

C4_Witness ==
    /\ pc = "advance" /\ ti = 2
    /\ <<width, height>> # InitialSize /\ shift /\ is_full_screen

\* C5: a key event changes the full-screen flag exactly when it is a
\* key-down of F with shift held (never a key-up, never F without shift);
\* after [key-down F with shift, key-up F] the flag is the negation of its
\* value before the key-down.
C5_ShiftFTogglesOnce ==
    /\ (last.kind = "key" =>
          ((is_full_screen # last.fs0) <=> IsShiftF(last, GLFW_PRESS)))
    /\ (IsKey(last, GLFW_KEY_F, GLFW_RELEASE) /\ prev.valid =>
          is_full_screen = ~prev.fs0)

C5_Witness ==
    IsKey(last, GLFW_KEY_F, GLFW_RELEASE) /\ prev.valid /\ ~prev.fs0

\* C6 as claimed: after two key-downs of F in a row (shift held, no key-up
\* between) the flag has been toggled once only.
C6_TwoPressesToggleOnce ==
    IsShiftF(last, GLFW_PRESS) /\ prev.valid => is_full_screen = ~prev.fs0

\* C6 amended: every delivered key-down (GLFW_PRESS) of F with shift held
\* toggles the flag, so two in a row leave it at its value before the
\* first; a key repeat (GLFW_REPEAT) of F after the key-down does not
\* toggle, so key-down then repeat toggles once.
C6_EachPressToggles ==
    /\ (IsShiftF(last, GLFW_PRESS) /\ prev.valid => is_full_screen = prev.fs0)
    /\ (IsShiftF(last, GLFW_REPEAT) /\ prev.valid => is_full_screen = ~prev.fs0)

C6_Witness == IsShiftF(last, GLFW_PRESS) /\ prev.valid /\ is_full_screen

\* C7 as claimed: a handler that was invoked saw the state as the whole
\* callback left it, the full-screen flag included.
C7_HandlerSeesPostState ==
    last.calls # <<>> =>
        last.seen = Snapshot(shift, left, position, is_full_screen)

\* C7 amended: a handler that was invoked saw the keyboard, click and cursor
\* state as updated for its event; the full-screen flag it saw is the value
\* from before the event, the shift+F toggle being applied after
\* keyboard_event returns.
C7_HandlerSeesInputState ==
    last.calls # <<>> =>
        /\ last.seen.shift = shift
        /\ last.seen.left = left
        /\ last.seen.position = position
        /\ last.seen.is_full_screen = last.fs0

C7_Witness ==
    /\ IsShiftF(last, GLFW_PRESS)
    /\ last.calls = <<"keyboard_event">>
    /\ last.seen.is_full_screen # is_full_screen

\* C8 as claimed: every delivered event of the four kinds was forwarded to
\* exactly one scene-level handler.
C8_OneNotificationPerEvent ==
    last.kind \in {"move", "click", "key", "resize"} => Len(last.calls) = 1

\* C8 amended: a mouse move, mouse click or key event is forwarded exactly
\* once, to mouse_move_event, mouse_click_event or keyboard_event; a window
\* resize is forwarded to no handler, it only stores the new size.
C8_OneNotificationButResize ==
    /\ (last.kind = "move" => last.calls = <<"mouse_move_event">>)
    /\ (last.kind = "click" => last.calls = <<"mouse_click_event">>)
    /\ (last.kind = "key" => last.calls = <<"keyboard_event">>)
    /\ (last.kind = "resize" => last.calls = <<>>)

C8_Witness ==
    last.kind = "resize" /\ <<width, height>> # InitialSize /\ pc = "poll"

\* C9: a key or button event with an unknown code triggers no handler
\* (lines 273 and 280 call the scene handler for every code).
C9_UnknownCodeNoHandler ==
    last.kind \in {"key", "click"} /\ last.code \in UnknownCodes =>
        last.calls = <<>>

\* C10: the callback of a key-down of V with shift held prints the camera
\* and leaves the camera, the full-screen flag, the window size and the
\* simulation state (t, y, ti) as they were.
C10_DumpReadOnly ==
    [][IsKey(last', GLFW_KEY_V, GLFW_PRESS) /\ last'.seen.shift =>
         /\ last'.out = <<camera>>
         /\ UNCHANGED <<camera, is_full_screen, width, height, t, y, ti>>]_vars

C10_Witness ==
    /\ IsKey(last, GLFW_KEY_V, GLFW_PRESS)
    /\ last.out = <<1>>
    /\ is_full_screen /\ ti = 2

\* C11: t never decreases, and whenever main is about to call the driver
\* the target ti is not below t, also after a call that failed.
C11_TimeMonotone ==
    /\ [](pc = "advance" => ti >= t)
    /\ [][t' >= t]_vars

C11_Witness ==
    /\ pc = "transform" /\ ti = 2
    /\ failed /\ status = GSL_SUCCESS /\ t = 2

\* C12: ti starts at 1 and changes only by the increment of line 128, by
\* exactly 1; an advance that succeeds leaves t = ti, and from the head of
\* the next iteration up to its advance t = ti - 1.
C12_ConsecutiveTargets ==
    /\ [](/\ (pc \in {"transform", "line", "display", "swap", "poll", "incr"}
                 /\ status = GSL_SUCCESS => t = ti)
          /\ (pc \in {"head", "frame", "advance"} /\ ti > 1
                 /\ status = GSL_SUCCESS => t = ti - 1))
    /\ [][ti' # ti => \/ (pc = "shaders" /\ ti' = 1)
                      \/ (pc = "incr" /\ ti' = ti + 1)]_vars

C12_Witness == pc = "advance" /\ ti = 2 /\ t = 1 /\ ~failed

\* The releases of lines 133-136 in program order.
ReleaseOrder == <<"imgui", "window", "glfw", "driver">>

\* C14: the releases happen once each, in the order of lines 133-136, only
\* after the loop has been left, and all four are done when main returns.
C14_ReleasedOnceInOrder ==
    /\ Len(released) <= Len(ReleaseOrder)
    /\ released = SubSeq(ReleaseOrder, 1, Len(released))
    /\ (released # <<>> => pc \in ShutdownPcs \ {"imgui_cleanup"})
    /\ (pc \in {"return", "done"} => released = ReleaseOrder)

C14_Witness == pc = "done" /\ released = ReleaseOrder /\ ti = 2

\* The steps of one iteration in program order.
IterationSteps == <<"timer", "advance", "transform", "line", "draw", "swap",
                    "poll", "incr">>

\* Number of steps of the current iteration already performed at pc.
StepsDone ==
    CASE pc = "frame" -> 0
      [] pc = "advance" -> 1
      [] pc = "transform" -> 2
      [] pc = "line" -> 3
      [] pc = "display" -> 4
      [] pc = "swap" -> 5
      [] pc = "poll" -> 6
      [] pc = "incr" -> 7
      [] OTHER -> IF ti > 1 THEN Len(IterationSteps) ELSE 0

\* C19: the steps performed so far in the current iteration are exactly the
\* first StepsDone steps of the order timer, advance, transform, geometry,
\* draw, swap, poll, increment, each once; a finished iteration has all.
C19_OneOfEachInOrder == steps = SubSeq(IterationSteps, 1, StepsDone)

C19_Witness == pc = "head" /\ ti = 3 /\ steps = IterationSteps

\* C20: from the frame set-up to the swap the viewport and the aspect ratio
\* are those of the window size at the start of the iteration; the size
\* changes only by a resize delivered during the poll, and that poll leaves
\* viewport and aspect ratio as they were.
C20_ResizeTakesEffectNextIteration ==
    /\ [](pc \in {"advance", "transform", "line", "display", "swap"}
            => /\ viewport = <<width, height>>
               /\ aspect_ratio = (width * Scale) \div height)
    /\ [][/\ (<<width, height>>' # <<width, height>>
                => pc = "poll" /\ last'.kind = "resize")
          /\ (pc = "poll" => /\ viewport' = viewport
                             /\ aspect_ratio' = aspect_ratio)]_vars

C20_Witness ==
    /\ pc = "advance" /\ ti = 2
    /\ viewport # InitialSize /\ viewport = <<width, height>>

\* The simulation state the claim speaks of.
simState == <<t, y, ti>>

\* Number of driver calls made so far, from the loop position alone.
AdvancesDone ==
    IF pc \in {"transform", "line", "display", "swap", "poll", "incr"}
    THEN ti
    ELSE IF ti > 0 THEN ti - 1 ELSE 0

\* C18: no step taken while callbacks are dispatched or while the frame
\* timer is read changes t, y or ti; y is a function of t alone, and in a
\* run whose driver calls all succeed t is a function of the loop position
\* alone, so runs that differ in events and frame times agree on (t, y, ti).
C18_SimIndependentOfInput ==
    /\ [](/\ y = evolve(y0, t * SubSteps, parameters)
          /\ (~failed => t = AdvancesDone))
    /\ [][(pc \in {"poll", "frame"}) => (simState' = simState)]_vars

C18_Witness ==
    /\ pc = "poll" /\ ti = 2 /\ t = 2 /\ ~failed
    /\ time_interval = 2 /\ last.kind = "key" /\ is_full_screen

\* Sign of an integer.
Sgn(a) == IF a > 0 THEN 1 ELSE IF a < 0 THEN 0 - 1 ELSE 0

Margin == Scale \div 25

C15_JacobianIsDerivative ==
    ode.stage = "done" =>
       LET p == ode.p
           J == ode.J
       IN  /\ J.den = p.M
           /\ J.dfdy = << <<0, J.den>>, <<0 - p.k, 0 - p.c>> >>
           /\ J.dfdt = <<0, 0>>
           /\ \A i \in 1 .. 2, j \in 1 .. 2 :
                ode.fe[j][i] - ode.f[i] = Scale * J.dfdy[i][j]

C15_Witness ==
    /\ ode.stage = "done" /\ ode.p = parameters
    /\ ode.y = <<3 * Scale, Scale>>
    /\ ode.fe[1][2] - ode.f[2] = 0 - parameters.k * Scale

====
